---- MODULE Spec2Model ----
(***************************************************************************)
(* DemaTema2.py: the DEMA-crossover strategy (DemaCrossStrategy), the      *)
(* backtrader engine it is run by (bt.Cerebro with the default broker:     *)
(* market orders, no volume filler, no cheat-on-open/close) and the        *)
(* reporting code of full_backtest.                                        *)
(*                                                                         *)
(* Units.  Prices are whole currency units.  Cash is kept in thousandths   *)
(* of a currency unit (Milli), so that the 0.1 % commission of a trade of  *)
(* whole shares at a whole price is an integer.  order_percentage 0.95 is  *)
(* kept as 95 hundredths.  int() of a non-negative quotient is \div.       *)
(*                                                                         *)
(* Indicators.  DEMA, CrossOver, ATR and the SMAs are computed by the      *)
(* library from the price series; here every bar carries the values that   *)
(* next() reads (crossover, close, sma_trend, atr, atr_sma), drawn from    *)
(* small sets that produce each ordering the comparisons distinguish.      *)
(***************************************************************************)
EXTENDS Integers, Sequences, FiniteSets, TLC

\* ------------------------------------------------------------- bounds
\* Longest price series of a run (the series may end at any bar 1..NumBars).
NumBars == 204

\* ------------------------------------------------- program constants
fast_dema == 10
slow_dema == 22
order_percentage == 95
atr_period == 14
atr_sma_period == 14
trend_period == 200
StartCash == 10000
CommissionPermille == 1
Milli == 1000
Percent == 100
\* 252 ** 0.5 = 15.8745..., in thousandths.
Sqrt252Milli == 15875

\* --------------------------------------------------------- input sets
\* Opens and closes: a buy sized at a close of 100 is unaffordable at an open
\* of 110 (Margin); a trade wins or loses between opens of 90, 100 and 110;
\* at a close of 20000 the computed size is 0.
OpenPrices == {90, 100, 110}
ClosePrices == {100, 20000}
\* Trend averages above, at and below a close.
SmaValues == {90, 100, 110}
\* ATR below, at and above its smoothed average.
AtrValues == {1, 2, 3}
AtrSmaValues == {2}
\* CrossOver: +1 crossing up, -1 crossing down, 0 otherwise.
CrossValues == {-1, 0, 1}
\* Per-period Sharpe ratios the analyzer may yield, in thousandths.
SharpeValues == {-40, 0, 40}

Bars == [open : OpenPrices, close : ClosePrices, crossover : CrossValues,
         sma_trend : SmaValues, atr : AtrValues, atr_sma : AtrSmaValues]

NoBar == [open |-> 0, close |-> 0, crossover |-> 0,
          sma_trend |-> 0, atr |-> 0, atr_sma |-> 0]

\* `None' for self.order and for the value of close() on a flat position.
NoOrder == [isbuy |-> FALSE, size |-> 0, created |-> 0, pclose |-> 0]

Max(a, b) == IF a >= b THEN a ELSE b

\* MinPeriod with the trend average left out of the strategy's indicators.
MinPeriod_NoTrend ==
    Max(Max(2 * fast_dema - 1, 2 * slow_dema - 1) + 1,
        (atr_period + 1) + (atr_sma_period - 1))

\* The first bar (counted from 1) on which every indicator of __init__ has a
\* value: backtrader calls prenext() before it, next() from it on.
\* DEMA(p) needs 2p-1 bars, CrossOver one more than its inputs, ATR(p) p+1,
\* SMA(x, q) q-1 more than x.
MinPeriod ==
    Max(Max(2 * fast_dema - 1, 2 * slow_dema - 1) + 1,
        Max((atr_period + 1) + (atr_sma_period - 1), trend_period))

VARIABLES
    df,           \* the download: "none" (not yet) | "empty" | "bars"
    len,          \* len(self): number of bars delivered so far
    phase,        \* "main" | "aborted" | "bar" | "notify" | "stopped" | "reported"
    bar,          \* the current bar and the indicator values on it
    cash,         \* broker cash, in Milli
    position,     \* [size, price]
    pending,      \* the broker's queue of live orders
    notifs,       \* the broker's queue of notifications not yet delivered
    order,        \* self.order
    buy_signals,  \* self.buy_signals
    sell_signals, \* self.sell_signals
    trades,       \* TradeAnalyzer: [total, closed, won]
    report,       \* what full_backtest computed and printed
    atr_above     \* history: the ATR was above its average on some bar so far

vars == <<df, len, phase, bar, cash, position, pending, notifs, order,
          buy_signals, sell_signals, trades, report, atr_above>>

\* Python's None and a present number.
None == [some |-> FALSE, val |-> 0]
Some(v) == [some |-> TRUE, val |-> v]

NoReport == [sr |-> None, ann_sr |-> None, total |-> 0, won |-> 0,
             win_rate |-> <<0, 1>>, error |-> "none",
             summary |-> FALSE, chart |-> FALSE]

Init ==
    /\ df = "none"
    /\ len = 0
    /\ phase = "main"
    /\ bar = NoBar
    /\ cash = StartCash * Milli
    /\ position = [size |-> 0, price |-> 0]
    /\ pending = <<>>
    /\ notifs = <<>>
    /\ order = NoOrder
    /\ buy_signals = <<>>
    /\ sell_signals = <<>>
    /\ trades = [total |-> 0, closed |-> 0, won |-> 0]
    /\ report = NoReport
    /\ atr_above = FALSE

\* ---------------------------------------------------------------- main
\* The script with the `if df.empty: raise' left out.
AfterDownload_NoCheck(empty) == "bar"

\* if df.empty: raise ValueError(...); otherwise the columns are renamed and
\* full_backtest(df) builds the engine and runs it.
AfterDownload(empty) == IF empty THEN "aborted" ELSE "bar"

\* The script body: one call of yf.download, whose result is empty or not.
main ==
    /\ phase = "main"
    /\ \E empty \in BOOLEAN :
         /\ df' = (IF empty THEN "empty" ELSE "bars")
         /\ phase' = AfterDownload(empty)
    /\ UNCHANGED <<len, bar, cash, position, pending, notifs, order,
                   buy_signals, sell_signals, trades, report, atr_above>>

\* ------------------------------------------------------------ strategy
\* Python's int(): truncation towards zero.
IntTrunc(n, d) == IF n >= 0 THEN n \div d ELSE -((-n) \div d)

\* BuySize with the whole cash allocated (order_percentage forgotten).
BuySize_AllCash(c, close) == IntTrunc(c, Milli * close)

\* size = int((cash * order_percentage) / close), cash c in Milli.  The code
\* divides floats; for every cash and close of this model the float quotient
\* truncates to the same integer as the exact one.
BuySize(c, close) == IntTrunc(c * order_percentage, Percent * Milli * close)

\* bool(self.position): the position's size is not zero.
HasPosition(pos) == pos.size # 0

\* BuyCond without the test that the position is flat.
BuyCond_NoFlatCheck(b, pos) ==
    /\ b.crossover > 0
    /\ b.close > b.sma_trend
    /\ b.atr > b.atr_sma

\* BuyCond with the ATR filter not strict.
BuyCond_AtrNotStrict(b, pos) ==
    /\ pos.size = 0
    /\ b.crossover > 0
    /\ b.close > b.sma_trend
    /\ b.atr >= b.atr_sma

\* The condition of the `if' of next().
BuyCond(b, pos) ==
    /\ ~HasPosition(pos)
    /\ b.crossover > 0
    /\ b.close > b.sma_trend
    /\ b.atr > b.atr_sma

\* SellCond with a trend filter mirrored from the entry rule.
SellCond_TrendFilter(b, pos) ==
    /\ pos.size # 0
    /\ b.crossover < 0
    /\ b.close < b.sma_trend
    /\ b.atr > b.atr_sma

\* The condition of the `elif' of next().
SellCond(b, pos) ==
    /\ HasPosition(pos)
    /\ b.crossover < 0
    /\ b.atr > b.atr_sma

\* self.buy(size=size): a market order created on bar t at the bar's close.
Buy(size, b, t) ==
    [isbuy |-> TRUE, size |-> size, created |-> t, pclose |-> b.close]

\* close() selling one share less than the position holds.
Close_AllButOne(pos, b, t) ==
    IF pos.size > 0
    THEN [isbuy |-> FALSE, size |-> pos.size - 1, created |-> t, pclose |-> b.close]
    ELSE NoOrder

\* self.close(): a market order for the whole position, None when flat.
Close(pos, b, t) ==
    IF pos.size > 0
    THEN [isbuy |-> FALSE, size |-> pos.size, created |-> t, pclose |-> b.close]
    ELSE IF pos.size < 0
    THEN [isbuy |-> TRUE, size |-> -pos.size, created |-> t, pclose |-> b.close]
    ELSE NoOrder

\* The order next() hands to the broker on bar t (NoOrder: none).
NextOrder(b, c, pos, t) ==
    IF BuyCond(b, pos)
    THEN IF BuySize(c, b.close) > 0
         THEN Buy(BuySize(c, b.close), b, t)
         ELSE NoOrder
    ELSE IF SellCond(b, pos)
    THEN Close(pos, b, t)
    ELSE NoOrder

\* self.order after next(): assigned in the two branches that submit.
NextSelfOrder(b, c, pos, t, old) ==
    IF BuyCond(b, pos)
    THEN IF BuySize(c, b.close) > 0
         THEN Buy(BuySize(c, b.close), b, t)
         ELSE old
    ELSE IF SellCond(b, pos)
    THEN Close(pos, b, t)
    ELSE old

\* next() refusing to trade again once a buy has been recorded.
NextDecision_OnceOnly(b, c, pos, t, buys, sells) ==
    IF buys # <<>> THEN NoOrder ELSE NextOrder(b, c, pos, t)

\* The order next() submits, given everything the strategy holds: the bar,
\* the broker's cash, the position and the two signal lists.
NextDecision(b, c, pos, t, buys, sells) == NextOrder(b, c, pos, t)

\* A notification: the order, its status and its executed price.
Notification(o, status, price) == [ord |-> o, status |-> status, price |-> price]

\* The order handed to the broker twice (buy()/close() called again).
Submit_Twice(q, o) == IF o = NoOrder THEN q ELSE Append(Append(q, o), o)

\* Strategy.buy()/close() reach the broker: the order joins the broker's
\* queue and its Submitted notification is queued.
Submit(q, o) == IF o = NoOrder THEN q ELSE Append(q, o)
SubmitNotify(ns, o) ==
    IF o = NoOrder THEN ns ELSE Append(ns, Notification(o, "Submitted", 0))

next ==
    /\ phase = "notify"
    /\ notifs = <<>>
    /\ len >= MinPeriod
    /\ pending' = Submit(pending, NextDecision(bar, cash, position, len,
                                                buy_signals, sell_signals))
    /\ notifs' = SubmitNotify(notifs, NextDecision(bar, cash, position, len,
                                                   buy_signals, sell_signals))
    /\ order' = NextSelfOrder(bar, cash, position, len, order)
    /\ phase' = "bar"
    /\ UNCHANGED <<df, len, bar, cash, position, buy_signals, sell_signals,
                   trades, report, atr_above>>

\* Before MinPeriod the engine calls prenext(), which the strategy leaves
\* at its default: nothing happens.
prenext ==
    /\ phase = "notify"
    /\ notifs = <<>>
    /\ len < MinPeriod
    /\ phase' = "bar"
    /\ UNCHANGED <<df, len, bar, cash, position, pending, notifs, order,
                   buy_signals, sell_signals, trades, report, atr_above>>

\* notify_order clearing self.order only for an order that did not fill.
NotifyOrderRef_KeepOnFill(n, old) ==
    IF n.status \in {"Submitted", "Accepted", "Completed"} THEN old ELSE NoOrder

\* notify_order returning early on a Margin notification too.
NotifyOrderRef_KeepOnMargin(n, old) ==
    IF n.status \in {"Submitted", "Accepted", "Margin"} THEN old ELSE NoOrder

\* notify_order: what it does to self.order and to the two signal lists.
NotifyOrderRef(n, old) ==
    IF n.status \in {"Submitted", "Accepted"} THEN old ELSE NoOrder

\* notify_order recording every fill as a buy.
NotifyBuySignals_AnySide(n, t, sigs) ==
    IF n.status = "Completed" THEN Append(sigs, <<t, n.price>>) ELSE sigs

NotifyBuySignals(n, t, sigs) ==
    IF n.status = "Completed" /\ n.ord.isbuy
    THEN Append(sigs, <<t, n.price>>)
    ELSE sigs

\* notify_order dating a sell record with the bar the order was created on.
NotifySellSignals_CreatedBar(n, t, sigs) ==
    IF n.status = "Completed" /\ ~n.ord.isbuy
    THEN Append(sigs, <<n.ord.created, n.price>>)
    ELSE sigs

NotifySellSignals(n, t, sigs) ==
    IF n.status = "Completed" /\ ~n.ord.isbuy
    THEN Append(sigs, <<t, n.price>>)
    ELSE sigs

notify_order ==
    /\ phase = "notify"
    /\ notifs # <<>>
    /\ order' = NotifyOrderRef(Head(notifs), order)
    /\ buy_signals' = NotifyBuySignals(Head(notifs), len, buy_signals)
    /\ sell_signals' = NotifySellSignals(Head(notifs), len, sell_signals)
    /\ notifs' = Tail(notifs)
    /\ UNCHANGED <<df, len, phase, bar, cash, position, pending, trades,
                   report, atr_above>>

\* -------------------------------------------------------------- engine
\* Commission of a trade of n shares at price p, in Milli: 0.001 * n * p.
Commission(n, p) == n * p * CommissionPermille

\* Cash left after buying n shares at price p (negative: not affordable).
CashAfterBuy(c, n, p) == c - n * p * Milli - Commission(n, p)

\* BackBroker.check_submitted: an order is accepted when its pseudo-execution
\* at the price it was created at leaves cash >= 0, and ends Margin otherwise.
Accepted(o, c) == ~o.isbuy \/ CashAfterBuy(c, o.size, o.pclose) >= 0

\* BackBroker._execute of a market order at the new bar's open p: a buy that
\* the cash does not cover ends Margin, everything else is Completed in full.
Affordable(o, c, p) == ~o.isbuy \/ CashAfterBuy(c, o.size, p) >= 0

ExecCash(o, c, p) ==
    IF o.isbuy
    THEN CashAfterBuy(c, o.size, p)
    ELSE c + o.size * p * Milli - Commission(o.size, p)

ExecPosition(o, pos, p) ==
    IF o.isbuy
    THEN [size |-> pos.size + o.size,
          price |-> (pos.size * pos.price + o.size * p) \div (pos.size + o.size)]
    ELSE [size |-> pos.size - o.size,
          price |-> IF pos.size - o.size = 0 THEN 0 ELSE pos.price]

\* Profit of the trade closed by selling n shares at p, net of both
\* commissions, in Milli (Trade.pnlcomm).
PnlComm(pos, n, p) ==
    n * (p - pos.price) * Milli - Commission(n, pos.price) - Commission(n, p)

\* TradeAnalyzer.notify_trade: a trade is counted in total when it opens;
\* when it closes it is counted closed, and won when its net profit is >= 0.
ExecTrades(o, pos, p, tr) ==
    IF o.isbuy /\ pos.size = 0
    THEN [tr EXCEPT !.total = @ + 1]
    ELSE IF ~o.isbuy /\ pos.size - o.size = 0
    THEN [tr EXCEPT !.closed = @ + 1,
                    !.won = @ + (IF PnlComm(pos, o.size, p) >= 0 THEN 1 ELSE 0)]
    ELSE tr

\* The broker's state while it works through its queue.
BrokerState(c, pos, tr, ns) ==
    [cash |-> c, position |-> pos, trades |-> tr, notifs |-> ns]

\* One order of the queue at the new bar: accepted (or Margin), then
\* executed at the open p (or Margin), each step notified.
ExecOne(o, st, p) ==
    IF ~Accepted(o, st.cash)
    THEN [st EXCEPT !.notifs = Append(@, Notification(o, "Margin", 0))]
    ELSE IF ~Affordable(o, st.cash, p)
    THEN [st EXCEPT !.notifs = @ \o <<Notification(o, "Accepted", 0),
                                      Notification(o, "Margin", 0)>>]
    ELSE BrokerState(ExecCash(o, st.cash, p),
                     ExecPosition(o, st.position, p),
                     ExecTrades(o, st.position, p, st.trades),
                     st.notifs \o <<Notification(o, "Accepted", 0),
                                    Notification(o, "Completed", p)>>)

RECURSIVE ExecAll(_, _, _)
ExecAll(q, st, p) ==
    IF q = <<>> THEN st ELSE ExecAll(Tail(q), ExecOne(Head(q), st, p), p)

\* Cerebro moves to the next bar and BackBroker.next() works through every
\* order submitted on the bar before.
BrokerNext ==
    /\ phase = "bar"
    /\ len < NumBars
    /\ \E b \in Bars :
         /\ bar' = b
         /\ LET st == ExecAll(pending,
                              BrokerState(cash, position, trades, notifs),
                              b.open)
            IN  /\ cash' = st.cash
                /\ position' = st.position
                /\ trades' = st.trades
                /\ notifs' = st.notifs
    /\ atr_above' = (atr_above \/ bar'.atr > bar'.atr_sma)
    /\ len' = len + 1
    /\ pending' = <<>>
    /\ phase' = "notify"
    /\ UNCHANGED <<df, order, buy_signals, sell_signals, report>>

\* cerebro.run() executing the orders still queued at the close of the last
\* bar before it returns.
Stop_FlushOrders ==
    /\ phase = "bar"
    /\ len >= 1
    /\ LET st == ExecAll(pending,
                         BrokerState(cash, position, trades, notifs),
                         bar.close)
       IN  /\ cash' = st.cash
           /\ position' = st.position
           /\ trades' = st.trades
    /\ pending' = <<>>
    /\ phase' = "stopped"
    /\ UNCHANGED <<df, len, bar, notifs, order, buy_signals, sell_signals,
                   report, atr_above>>

\* The data feed is exhausted: cerebro.run() returns.
Stop ==
    /\ phase = "bar"
    /\ len >= 1
    /\ phase' = "stopped"
    /\ UNCHANGED <<df, len, bar, cash, position, pending, notifs, order,
                   buy_signals, sell_signals, trades, report, atr_above>>

\* ----------------------------------------------------------- reporting
\* Python truthiness of an optional number: None and 0 are false.
Truthy(x) == x.some /\ x.val # 0

\* ann_sr = sr * (252**0.5) if sr else None   (sr in thousandths, the
\* result in millionths).
AnnSharpe(sr) == IF Truthy(sr) THEN Some(sr.val * Sqrt252Milli) ELSE None

\* What the SharpeRatio analysis holds under 'sharperatio': a ratio, or None
\* when the analyzer could not compute one.
SharpeInputs == {None} \cup {Some(v) : v \in SharpeValues}

\* trades.total.total: TradeAnalyzer writes it when it is created.
TotalLookup(tr) == Some(tr.total)

\* trades.won.total: TradeAnalyzer writes the won/lost counts when the first
\* trade closes, and the analysis it returns is a closed AutoOrderedDict:
\* reading a key that was never written raises KeyError.
WonPresent(tr) == tr.closed > 0
WonLookup(tr) == IF WonPresent(tr) THEN Some(tr.won) ELSE None

\* x or 0
OrZero(x) == IF Truthy(x) THEN x.val ELSE 0

\* win_rate = won/total*100 if total else 0, as the fraction <<num, den>>.
WinRate(won, total) == IF total # 0 THEN <<won * Percent, total>> ELSE <<0, 1>>

\* f"{ann_sr:.2f}": None has no such format, the print raises TypeError.
Formattable(x) == x.some

\* full_backtest after cerebro.run(): lines 83-104 in order, up to the first
\* exception.  (The draw-down figure is only printed and is left out.)
FullReport(sr, tr) ==
    IF ~WonPresent(tr)
    THEN [sr |-> sr, ann_sr |-> AnnSharpe(sr), total |-> OrZero(TotalLookup(tr)),
          won |-> 0, win_rate |-> <<0, 1>>, error |-> "KeyError",
          summary |-> FALSE, chart |-> FALSE]
    ELSE [sr |-> sr, ann_sr |-> AnnSharpe(sr),
          total |-> OrZero(TotalLookup(tr)),
          won |-> OrZero(WonLookup(tr)),
          win_rate |-> WinRate(OrZero(WonLookup(tr)), OrZero(TotalLookup(tr))),
          error |-> IF Formattable(AnnSharpe(sr)) THEN "none" ELSE "TypeError",
          summary |-> Formattable(AnnSharpe(sr)),
          chart |-> Formattable(AnnSharpe(sr))]

full_backtest ==
    /\ phase = "stopped"
    /\ \E sr \in SharpeInputs : report' = FullReport(sr, trades)
    /\ phase' = "reported"
    /\ UNCHANGED <<df, len, bar, cash, position, pending, notifs, order,
                   buy_signals, sell_signals, trades, atr_above>>

Next ==
    \/ main
    \/ BrokerNext
    \/ notify_order
    \/ next
    \/ prenext
    \/ Stop
    \/ full_backtest

Spec == Init /\ [][Next]_vars

\* The script runs to its end: neither the interpreter nor cerebro.run()
\* halts while a step is left to take (single-threaded, finite data feed).
FairSpec == Spec /\ WF_vars(Next)

\* ============================================================== claims
\* The orders that are live for the strategy: in the broker's queue, or
\* with a notification still to be delivered.
LiveOrders ==
    {pending[i] : i \in DOMAIN pending} \cup {notifs[i].ord : i \in DOMAIN notifs}

\* The engine is about to call next() on the current bar.
NextDue == phase = "notify" /\ notifs = <<>> /\ len >= MinPeriod

\* next() has run on the current bar and the engine has not moved on.
NextRan == phase = "bar" /\ len >= MinPeriod

BuySubmitted == \E i \in DOMAIN pending : pending[i].isbuy /\ pending[i].created = len
SellSubmitted == \E i \in DOMAIN pending : ~pending[i].isbuy /\ pending[i].created = len

C2_SideMatchesPosition ==
    \A i \in DOMAIN pending :
        /\ (pending[i].isbuy => position.size = 0)
        /\ (~pending[i].isbuy => position.size # 0)

\* C2 witness: a close order submitted by next() after an earlier buy filled.
C2_Witness ==
    /\ NextRan
    /\ SellSubmitted
    /\ position.size > 0
    /\ Len(buy_signals) >= 1

\* C3: the position size is never negative; it is zero as long as no buy
\* has filled, it is the filled buy size right after a buy fill, and exactly
\* zero right after every sell fill.
C3_PositionSize ==
    /\ position.size >= 0
    /\ (trades.total = 0 => position.size = 0)
    /\ \A i \in DOMAIN notifs :
         notifs[i].status = "Completed" =>
            position.size = (IF notifs[i].ord.isbuy THEN notifs[i].ord.size ELSE 0)

\* C3 witness: a sell has just filled, after a buy fill, and the position is
\* back at zero.
C3_Witness ==
    /\ \E i \in DOMAIN notifs : notifs[i].status = "Completed" /\ ~notifs[i].ord.isbuy
    /\ Len(buy_signals) >= 1
    /\ position.size = 0

\* C4 as stated: no order is submitted on a bar with index below 200, the
\* index of a bar counted from 0 (the first 200 bars of the series).
C4_NoOrderBelowIndex200 ==
    \A i \in DOMAIN pending : ~(pending[i].created - 1 < trend_period)

\* C4 amended: no order is submitted on any of the first 199 bars (before the
\* 200th bar), and no order fills on any of the first 200 bars; on the 200th
\* bar itself next() is invoked and may submit.
C4_NoOrderBefore200thBar ==
    /\ \A i \in DOMAIN pending : pending[i].created >= trend_period
    /\ \A i \in DOMAIN notifs : notifs[i].ord.created >= trend_period
    /\ \A i \in DOMAIN buy_signals : buy_signals[i][1] > trend_period
    /\ \A i \in DOMAIN sell_signals : sell_signals[i][1] > trend_period
    /\ (len < trend_period => order = NoOrder /\ position.size = 0)

\* C4 witness: a buy order submitted on the 200th bar.
C4_Witness ==
    /\ NextRan
    /\ len = trend_period
    /\ BuySubmitted

\* C5 as stated: the size is floor(cash * 0.95 / close), no buy when that is
\* <= 0, and cash 10000 at a close of 100 gives size 94.
C5_SizeWithExample94 ==
    /\ \A i \in DOMAIN pending :
         pending[i].isbuy =>
            /\ pending[i].size > 0
            /\ pending[i].size * (Percent * Milli * bar.close) <= cash * order_percentage
            /\ cash * order_percentage < (pending[i].size + 1) * (Percent * Milli * bar.close)
            /\ (cash = 10000 * Milli /\ bar.close = 100 => pending[i].size = 94)
    /\ (NextRan /\ cash * order_percentage < Percent * Milli * bar.close => ~BuySubmitted)

\* C5 amended: every buy order submitted by next() has size
\* floor(cash * 0.95 / close) > 0, no buy is submitted when that value is 0
\* or negative, and cash 10000 at a close of 100 gives size 95.
C5_SizeIsFloor ==
    /\ \A i \in DOMAIN pending :
         pending[i].isbuy =>
            /\ pending[i].size > 0
            /\ pending[i].size * (Percent * Milli * bar.close) <= cash * order_percentage
            /\ cash * order_percentage < (pending[i].size + 1) * (Percent * Milli * bar.close)
            /\ (cash = 10000 * Milli /\ bar.close = 100 => pending[i].size = 95)
    /\ (NextRan /\ cash * order_percentage < Percent * Milli * bar.close => ~BuySubmitted)

\* C5 witness: the buy of the example, cash 10000 at a close of 100.
C5_Witness ==
    /\ NextRan
    /\ BuySubmitted
    /\ cash = 10000 * Milli
    /\ bar.close = 100

\* C6: on a bar where next() runs, a buy order is submitted if and only if
\* the position is flat, the crossover is positive, the close is strictly
\* above the trend average, the ATR is strictly above its smoothed average
\* and the computed size floor(cash * 0.95 / close) is greater than 0.
C6_BuyIff ==
    NextRan =>
        (BuySubmitted <=>
            /\ position.size = 0
            /\ bar.crossover > 0
            /\ bar.close > bar.sma_trend
            /\ bar.atr > bar.atr_sma
            /\ cash * order_percentage >= Percent * Milli * bar.close)

\* C6 witness: every entry condition holds but the computed size is 0, and
\* next() submits nothing.
C6_Witness ==
    /\ NextRan
    /\ position.size = 0
    /\ bar.crossover > 0
    /\ bar.close > bar.sma_trend
    /\ bar.atr > bar.atr_sma
    /\ cash * order_percentage < Percent * Milli * bar.close
    /\ pending = <<>>

\* C7: on a bar where next() runs, a close order is submitted if and only if
\* the position is open, the crossover is negative and the ATR is strictly
\* above its smoothed average, whatever the trend average; the order is for
\* the whole position.
C7_CloseIff ==
    /\ NextRan =>
         (SellSubmitted <=>
            /\ position.size # 0
            /\ bar.crossover < 0
            /\ bar.atr > bar.atr_sma)
    /\ \A i \in DOMAIN pending : ~pending[i].isbuy => pending[i].size = position.size

\* C7 witness: a close order for the whole position submitted on a bar whose
\* close is above the trend average.
C7_Witness ==
    /\ NextRan
    /\ SellSubmitted
    /\ bar.close > bar.sma_trend
    /\ pending[1].size = position.size

\* C8: when the analyzer yields no per-period ratio, full_backtest reports
\* the annualized value as absent, still prints the summary line and produces
\* the chart, and no error is raised.
C8_AbsentSharpeStillReports ==
    (phase = "reported" /\ ~report.sr.some) =>
        /\ report.ann_sr = None
        /\ report.error = "none"
        /\ report.summary
        /\ report.chart

\* C9: whenever the analyzer yields a per-period ratio, a ratio of 0
\* included, the annualized value reported is that ratio times sqrt(252); it
\* is absent only when no ratio is available.
C9_AnnualizedWheneverRatio ==
    phase = "reported" =>
        /\ (report.sr.some => report.ann_sr = Some(report.sr.val * Sqrt252Milli))
        /\ (~report.sr.some => report.ann_sr = None)

\* C10: for every completed run a win rate is computed without error: it is
\* 0 when no trade has closed (also when the analysis holds no won count),
\* it is won/total*100 for every total > 0, and nothing is divided by zero.
C10_WinRate ==
    phase = "reported" =>
        /\ report.error # "KeyError"
        /\ report.win_rate[2] # 0
        /\ (trades.closed = 0 => report.win_rate[1] = 0)
        /\ (trades.total > 0 =>
              report.win_rate[1] * trades.total
                  = trades.won * Percent * report.win_rate[2])

\* C11: when the download returns an empty result the run aborts before the
\* engine exists: no bar is processed, no order is submitted, nothing is
\* reported or drawn, and the download is not tried again (the aborted state
\* is never left).
C11_EmptyDownloadAborts ==
    df = "empty" =>
        /\ phase = "aborted"
        /\ len = 0
        /\ bar = NoBar
        /\ pending = <<>>
        /\ notifs = <<>>
        /\ order = NoOrder
        /\ buy_signals = <<>>
        /\ sell_signals = <<>>
        /\ report = NoReport

\* C11 witness: the download came back empty and the run has aborted.
C11_Witness == df = "empty" /\ phase = "aborted"

\* C12: a fill notification delivered to notify_order appends exactly one
\* (fill bar, fill price) record to the buy list for a buy and to the sell
\* list otherwise, and leaves the other list unchanged; any other
\* notification leaves both lists unchanged.
C12_FillAppendsOneRecord ==
    [][(phase = "notify" /\ notifs # <<>>) =>
        IF Head(notifs).status = "Completed"
        THEN IF Head(notifs).ord.isbuy
             THEN /\ buy_signals' = Append(buy_signals, <<len, Head(notifs).price>>)
                  /\ sell_signals' = sell_signals
             ELSE /\ sell_signals' = Append(sell_signals, <<len, Head(notifs).price>>)
                  /\ buy_signals' = buy_signals
        ELSE /\ buy_signals' = buy_signals
             /\ sell_signals' = sell_signals]_vars

\* C12 witness: the fill of a sell has just been recorded on this bar, after
\* the fill of a buy.
C12_Witness ==
    /\ phase = "notify"
    /\ sell_signals # <<>>
    /\ sell_signals[Len(sell_signals)][1] = len
    /\ Len(buy_signals) = Len(sell_signals)

\* Other contents the two signal lists could hold.
AltSignals == {<<>>, <<<<1, 100>>>>, <<<<1, 100>>, <<2, 110>>>>}

C14_EveryOrderFillsNextBar ==
    \A i \in DOMAIN notifs :
        notifs[i].status \notin {"Submitted", "Accepted"} =>
            /\ notifs[i].status = "Completed"
            /\ len = notifs[i].ord.created + 1

\* C14 amended: an order submitted on bar t is never filled on bar t; it
\* stays in the broker during bar t only and is resolved on bar t+1, when
\* there is one: filled at that bar's open, the fill notification and the
\* signal record dated t+1, or, for a buy the cash does not cover at that
\* open, refused (Margin) with no record.
C14_ResolvedNextBar ==
    /\ [](/\ \A i \in DOMAIN pending : pending[i].created = len
          /\ \A i \in DOMAIN notifs :
                IF notifs[i].status = "Submitted"
                THEN len \in {notifs[i].ord.created, notifs[i].ord.created + 1}
                ELSE len = notifs[i].ord.created + 1)
    /\ [][(phase = "notify" /\ notifs # <<>> /\ Head(notifs).status = "Completed") =>
            IF Head(notifs).ord.isbuy
            THEN buy_signals' = Append(buy_signals,
                     <<Head(notifs).ord.created + 1, Head(notifs).price>>)
            ELSE sell_signals' = Append(sell_signals,
                     <<Head(notifs).ord.created + 1, Head(notifs).price>>)]_vars

\* C14 witness: a buy submitted on the 200th bar and a close submitted on
\* the 201st have both filled, on the bars that followed them.
C14_Witness ==
    /\ buy_signals # <<>>
    /\ sell_signals # <<>>
    /\ buy_signals[1][1] = trend_period + 1
    /\ sell_signals[1][1] = trend_period + 2

\* C15: as long as the ATR has not been strictly above its smoothed average
\* on any bar of the series, no buy and no close order has been submitted:
\* no order is live, no trade exists, the position is flat, the cash is
\* untouched and both signal lists are empty, up to the end of the run.
C15_NoOrderWithoutAtrAbove ==
    ~atr_above =>
        /\ pending = <<>>
        /\ notifs = <<>>
        /\ order = NoOrder
        /\ trades.total = 0
        /\ position.size = 0
        /\ cash = StartCash * Milli
        /\ buy_signals = <<>>
        /\ sell_signals = <<>>

\* C15 witness: next() has run on a bar past the warm-up where every other
\* entry condition holds and the ATR equals its smoothed average, in a series
\* whose ATR never exceeded it.
C15_Witness ==
    /\ ~atr_above
    /\ NextRan
    /\ len > MinPeriod
    /\ bar.crossover > 0
    /\ bar.close > bar.sma_trend
    /\ bar.atr = bar.atr_sma
    /\ BuySize(cash, bar.close) > 0

\* C16: each invocation of next() submits at most one order: the broker's
\* queue grows by at most one order, one Submitted notification at most is
\* queued, and never a buy together with a close.
C16_AtMostOneOrderPerNext ==
    [][NextDue =>
        /\ Len(pending') <= Len(pending) + 1
        /\ Len(notifs') <= Len(notifs) + 1
        /\ ~(\E i, j \in DOMAIN pending' :
                pending'[i].isbuy /\ ~pending'[j].isbuy)]_vars

\* C16 witness: next() has submitted one order on a bar after the 200th.
C16_Witness ==
    /\ NextRan
    /\ len > trend_period
    /\ Len(pending) = 1
    /\ Len(notifs) = 1

\* C17: notify_order leaves self.order unchanged on a Submitted or Accepted
\* notification and sets it to None on every other one; a refused order
\* (Margin) adds no signal record and leaves position and cash unchanged, so
\* that next() finds no order pending on the following signal bar.
C17_NotifyClearsOrder ==
    [][(phase = "notify" /\ notifs # <<>>) =>
        /\ (Head(notifs).status \in {"Submitted", "Accepted"} => order' = order)
        /\ (Head(notifs).status \notin {"Submitted", "Accepted"} => order' = NoOrder)
        /\ (Head(notifs).status = "Margin" =>
              /\ buy_signals' = buy_signals
              /\ sell_signals' = sell_signals
              /\ position' = position
              /\ cash' = cash
              /\ (notifs' = <<>> /\ len' >= MinPeriod => NextDue'))]_vars

\* C17 witness: the Margin notification of a refused buy is about to be
\* delivered on a bar that carries an entry signal again.
C17_Witness ==
    /\ phase = "notify"
    /\ Len(notifs) = 1
    /\ Head(notifs).status = "Margin"
    /\ order = Head(notifs).ord
    /\ BuyCond(bar, position)
    /\ BuySize(cash, bar.close) > 0

\* A fill whose notification has not been delivered yet.
FillUndelivered == \E i \in DOMAIN notifs : notifs[i].status = "Completed"

\* The recorded fills alternate in time, starting with a buy.
FillsAlternate ==
    /\ Len(buy_signals) - Len(sell_signals) \in {0, 1}
    /\ \A i \in DOMAIN sell_signals : buy_signals[i][1] < sell_signals[i][1]
    /\ \A i \in DOMAIN sell_signals :
          i + 1 \in DOMAIN buy_signals => sell_signals[i][1] < buy_signals[i + 1][1]

\* C18 as stated: in every reachable state the recorded fills alternate and
\* there is one more buy record than sell records exactly when the position
\* is open.
C18_AlternateInEveryState ==
    /\ FillsAlternate
    /\ (Len(buy_signals) - Len(sell_signals) = 1 <=> position.size # 0)

\* C18 amended: in every reachable state the recorded fills alternate,
\* starting with a buy, and whenever no fill is waiting to be notified there
\* is one more buy record than sell records exactly when the position is
\* open.
C18_AlternateOnceNotified ==
    /\ FillsAlternate
    /\ (~FillUndelivered =>
          (Len(buy_signals) - Len(sell_signals) = 1 <=> position.size # 0))

\* C18 witness: a second buy has filled and been recorded after a first
\* buy and its sell.
C18_Witness ==
    /\ ~FillUndelivered
    /\ Len(buy_signals) = 2
    /\ Len(sell_signals) = 1
    /\ position.size > 0

====
